---- MODULE Spec2Model ----
(***************************************************************************)
(* A model of novel_refiner.py (NovelRefiner): the content sanitizer, the  *)
(* chapter segmenter run by `init`, the chapter range resolver, the merger *)
(* and the commands scan / plan / refine / refine-exec.                    *)
(*                                                                         *)
(* Text is a sequence of characters; a character is a one-token string.    *)
(* The characters the code treats alike are represented by one token:      *)
(*   LF  "\n"            CR  "\r" (a line boundary of str.splitlines that  *)
(*   SP  " "                       is not "\n"; CR LF is one boundary)     *)
(*   ZW  U+200B (one of the code points control_chars removes)             *)
(*   DI  "第"   NUM a classical numeral   DIG a decimal digit               *)
(*   ZHANG "章"  JIE "节" (one of 节卷集部)   QM "?" (a path-unsafe char)    *)
(*   "F","D" / "M","X": the two advertisement keywords, abbreviated        *)
(*   "a","b","x","y","_": ordinary characters                              *)
(***************************************************************************)
EXTENDS Integers, Sequences, FiniteSets, TLC

LF == "LF"
CR == "CR"
SP == "SP"
ZW == "ZW"
DI == "DI"
NUM == "NUM"
DIG == "DIG"
ZHANG == "ZHANG"
JIE == "JIE"
QM == "QM"
US == "_"
DASH == "-"
SLASH == "/"

\* str.splitlines boundaries that occur in the model's alphabet.
LineBreaks == {LF, CR}

\* What \s matches (the model's alphabet has these three).
Whitespace == {LF, CR, SP}

\* re.compile(r'[\u200b-\u200f\u202a-\u202e\u2060-\u206f\u061c]')
control_chars == {ZW}

\* ad_keywords = ['Fanqie-novel-Downloader', '免费下载器下载'], abbreviated.
ad_keywords == << <<"F", "D">>, <<"M", "X">> >>

Min(a, b) == IF a <= b THEN a ELSE b

\* All sequences over S of length at most n.
SeqUpTo(S, n) == UNION {[1..k -> S] : k \in 0..n}

Repeat(line, n) == [i \in 1..n |-> line]

RECURSIVE Join(_, _)
\* sep.join(ss)
Join(ss, sep) ==
  IF ss = <<>> THEN <<>>
  ELSE IF Len(ss) = 1 THEN Head(ss)
  ELSE Head(ss) \o <<sep>> \o Join(Tail(ss), sep)

\* kw in line
Contains(line, kw) ==
  \E i \in 1..(Len(line) - Len(kw) + 1) : SubSeq(line, i, i + Len(kw) - 1) = kw

RECURSIVE SplitFrom(_, _, _)
\* str.splitlines: the scan from position i with the current line cur. A
\* boundary ends the line (CR LF is one boundary); what is left at the end of
\* the string is a line only when it is not empty.
SplitFrom(s, i, cur) ==
  IF i > Len(s) THEN (IF cur = <<>> THEN <<>> ELSE <<cur>>)
  ELSE IF s[i] \in LineBreaks
       THEN LET step == IF s[i] = CR /\ i < Len(s) /\ s[i + 1] = LF THEN 2 ELSE 1
            IN  <<cur>> \o SplitFrom(s, i + step, <<>>)
       ELSE SplitFrom(s, i + 1, Append(cur, s[i]))

\* content.splitlines()
splitlines(s) == SplitFrom(s, 1, <<>>)

\* any(kw in line for kw in ad_keywords), as a bug would have it: only the
\* first keyword is looked for.
IsAdLineFirstOnly(line) == Contains(line, ad_keywords[1])

\* any(kw in line for kw in ad_keywords)
IsAdLine(line) == \E k \in 1..Len(ad_keywords) : Contains(line, ad_keywords[k])

RECURSIVE FilterLines(_)
\* the for loop of clean_content: an ad line is counted and dropped
\* (continue), every other line is appended to cleaned_lines.
FilterLines(lines) ==
  IF lines = <<>> THEN <<>>
  ELSE IF IsAdLine(Head(lines)) THEN FilterLines(Tail(lines))
  ELSE <<Head(lines)>> \o FilterLines(Tail(lines))

RECURSIVE StripControl(_)
\* control_chars.sub('', content)
StripControl(s) ==
  IF s = <<>> THEN <<>>
  ELSE IF Head(s) \in control_chars THEN StripControl(Tail(s))
  ELSE <<Head(s)>> \o StripControl(Tail(s))

\* NovelRefiner.clean_content
clean_content(content) == StripControl(Join(FilterLines(splitlines(content)), LF))

(***************************************************************************)
(* The chapter segmenter (_split_source_files).                            *)
(***************************************************************************)

\* [零一二三四五六七八九十百千万土廿卅卌]
ClassicalNumerals == {NUM}

\* \d: the abstract digit of a manuscript and the digits of a file name.
Digits == {DIG, "0", "1", "2", "3", "4", "5", "6", "7", "8", "9"}

\* The three compiled patterns, in the order of the list: the numeral
\* classes a heading may use (the alternatives of the pattern, in order) and
\* the characters that may follow the numerals.
strategies ==
  << [nums |-> <<ClassicalNumerals>>, marks |-> {ZHANG}],
     [nums |-> <<Digits>>, marks |-> {ZHANG}],
     [nums |-> <<ClassicalNumerals, Digits>>, marks |-> {ZHANG, JIE}] >>

\* len(matches) > 5
MinMatches == 5

RECURSIVE RunEnd(_, _, _)
\* The first position from i on whose character is not in cls (a greedy
\* [cls]+ stops there).
RunEnd(s, i, cls) ==
  IF i > Len(s) \/ s[i] \notin cls THEN i ELSE RunEnd(s, i + 1, cls)

RECURSIVE LineEnd(_, _)
\* Where [^\n]* stops: the next "\n", or the end of the text.
LineEnd(s, i) == IF i > Len(s) \/ s[i] = LF THEN i ELSE LineEnd(s, i + 1)

\* The capture group 第<numerals>+<mark> matches at position q.
HeadingAt(s, q, strat) ==
  /\ q <= Len(s)
  /\ s[q] = DI
  /\ \E a \in 1..Len(strat.nums) :
       LET r == RunEnd(s, q + 1, strat.nums[a])
       IN  r > q + 1 /\ r <= Len(s) /\ s[r] \in strat.marks

NoMatch == [start |-> 0, gs |-> 0, end |-> 0]

\* The pattern tried at position p: (?:^|\n|\s) then the group. start is
\* match.start() + 1, gs the group's first position, end one past the match.
MatchAt(s, p, strat) ==
  IF p = 1 /\ HeadingAt(s, 1, strat)
  THEN [start |-> 1, gs |-> 1, end |-> LineEnd(s, 1)]
  ELSE IF p <= Len(s) /\ s[p] \in Whitespace /\ HeadingAt(s, p + 1, strat)
  THEN [start |-> p, gs |-> p + 1, end |-> LineEnd(s, p + 1)]
  ELSE NoMatch

RECURSIVE FindFrom(_, _, _)
\* pattern.finditer(content): the leftmost match from pos on, then on from
\* its end.
FindFrom(s, pos, strat) ==
  IF pos > Len(s) THEN <<>>
  ELSE LET m == MatchAt(s, pos, strat)
       IN  IF m = NoMatch THEN FindFrom(s, pos + 1, strat)
           ELSE <<m>> \o FindFrom(s, m.end, strat)

\* list(pattern.finditer(content))
finditer(s, strat) == FindFrom(s, 1, strat)

RECURSIVE LStrip(_)
LStrip(s) == IF s # <<>> /\ Head(s) \in Whitespace THEN LStrip(Tail(s)) ELSE s

RECURSIVE RStrip(_)
RStrip(s) ==
  IF s # <<>> /\ s[Len(s)] \in Whitespace THEN RStrip(SubSeq(s, 1, Len(s) - 1)) ELSE s

\* str.strip()
Strip(s) == LStrip(RStrip(s))

\* "前言/序章"
PrefaceTitle == <<"qian", "yan", SLASH, "xu", ZHANG>>

\* body = content[start:end] as a bug would have it: content[start:end].strip(),
\* the white space around every body is lost.
PartsOfStripped(content, matches) ==
  (IF matches[1].start > 1
   THEN << [title |-> PrefaceTitle, body |-> Strip(SubSeq(content, 1, matches[1].start - 1))] >>
   ELSE <<>>)
  \o [i \in 1..Len(matches) |->
        [title |-> Strip(SubSeq(content, matches[i].gs, matches[i].end - 1)),
         body  |-> Strip(SubSeq(content, matches[i].start,
                                (IF i + 1 <= Len(matches) THEN matches[i + 1].start
                                 ELSE Len(content) + 1) - 1))]]

\* parts of one accepted strategy: the preface when the first match does not
\* start the text, then one part per match, from its start to the next
\* match's start (to the end of the text for the last).
PartsOf(content, matches) ==
  (IF matches[1].start > 1
   THEN << [title |-> PrefaceTitle, body |-> SubSeq(content, 1, matches[1].start - 1)] >>
   ELSE <<>>)
  \o [i \in 1..Len(matches) |->
        [title |-> Strip(SubSeq(content, matches[i].gs, matches[i].end - 1)),
         body  |-> SubSeq(content, matches[i].start,
                          (IF i + 1 <= Len(matches) THEN matches[i + 1].start
                           ELSE Len(content) + 1) - 1)]]

\* len(matches) > 5 as a bug would have it: 5 matches are enough.
AcceptsFive(matches) == Len(matches) >= MinMatches

\* len(matches) > 5
Accepts(matches) == Len(matches) > MinMatches

RECURSIVE SegmentFrom(_, _)
\* for pattern in strategies: the first accepted pattern makes the parts and
\* ends the loop (break); used is its place in the list, 0 when none is.
SegmentFrom(content, k) ==
  IF k > Len(strategies) THEN [used |-> 0, parts |-> <<>>]
  ELSE LET matches == finditer(content, strategies[k])
       IN  IF Accepts(matches)
           THEN [used |-> k, parts |-> PartsOf(content, matches)]
           ELSE SegmentFrom(content, k + 1)

Segment(content) == SegmentFrom(content, 1)

(***************************************************************************)
(* File names.                                                             *)
(***************************************************************************)

TXT == ".txt"

\* title[:30]
TitleLimit == 30

\* 50 * 1024
Threshold == 51200

\* [\\/*?:"<>|], the ones of the model's alphabet
UnsafeChars == {SLASH, QM}

\* re.sub(r'[\\/*?:"<>|]', "", title[:30]).strip()
safe_title(title) ==
  Strip(SelectSeq(SubSeq(title, 1, Min(Len(title), TitleLimit)),
                  LAMBDA c : c \notin UnsafeChars))

DigitChars == <<"0", "1", "2", "3", "4", "5", "6", "7", "8", "9">>

RECURSIVE ToDigits(_)
\* the decimal digits of n >= 0
ToDigits(n) ==
  IF n < 10 THEN <<DigitChars[n + 1]>>
  ELSE ToDigits(n \div 10) \o <<DigitChars[(n % 10) + 1]>>

RECURSIVE ZeroPad(_, _)
ZeroPad(ds, width) == IF Len(ds) >= width THEN ds ELSE ZeroPad(<<"0">> \o ds, width)

\* f"{seq_num:04d}"
num_str(seq_num) == ZeroPad(ToDigits(seq_num), 4)

\* seq_num = idx + 1 as a bug would have it: numbering from enumerate's 0.
SeqNumFromZero(idx) == idx

\* seq_num = idx + 1
SeqNum(idx) == idx + 1

\* f"第{num_str}-{safe_title}.txt"
filename(seq_num, title) ==
  <<DI>> \o num_str(seq_num) \o <<DASH>> \o safe_title(title) \o <<TXT>>

\* 第\d+- matches at position i of the name
SplitPrefixAt(name, i) ==
  /\ i <= Len(name)
  /\ name[i] = DI
  /\ LET r == RunEnd(name, i + 1, Digits)
     IN  r > i + 1 /\ r <= Len(name) /\ name[r] = DASH

\* re.search(r"第\d+-", file_path.name)
SearchSplitName(name) == \E i \in 1..Len(name) : SplitPrefixAt(name, i)

\* re.match(r"第\d+-", f.name)
MatchSplitName(name) == SplitPrefixAt(name, 1)

DigitValue(c) ==
  IF c = DIG THEN 1 ELSE (CHOOSE d \in 1..10 : DigitChars[d] = c) - 1

RECURSIVE ToInt(_)
\* int(m.group(1))
ToInt(ds) ==
  IF ds = <<>> THEN 0 ELSE 10 * ToInt(SubSeq(ds, 1, Len(ds) - 1)) + DigitValue(ds[Len(ds)])

\* extract_num: the digits of the leftmost 第(\d+)- in the name, or the
\* sentinel when there is none.
extract_num(name) ==
  IF SearchSplitName(name)
  THEN LET i == CHOOSE j \in 1..Len(name) :
                  SplitPrefixAt(name, j) /\ \A k \in 1..(j - 1) : ~SplitPrefixAt(name, k)
       IN  ToInt(SubSeq(name, i + 1, RunEnd(name, i + 1, Digits) - 1))
  ELSE 999999

\* file_path.stem.replace(" ", "_")
book_name(stem) == [i \in 1..Len(stem) |-> IF stem[i] = SP THEN US ELSE stem[i]]

(***************************************************************************)
(* State.                                                                  *)
(*   raw, cleaned, again, cstage : a text, clean_content of it, and        *)
(*                                 clean_content of that                   *)
(*   text, seg, sstage           : a sanitized manuscript text and the     *)
(*                                 segmenter's result on it                *)
(*   source   : the manuscripts at the top of the source directory      *)
(*   books    : the chapter files in the book subdirectories               *)
(*   archive  : the files of _archive (raw_<name>)                         *)
(*   context  : story_context.txt exists                                   *)
(*   pc, queue: init_project's position; the manuscripts source_files      *)
(*              still holds                                                *)
(*   last     : what the last step of init did                             *)
(*   placed   : the manuscripts placed so far                              *)
(*   listing  : the *.txt files under the source directory, in the order   *)
(*              rglob yields them                                          *)
(*   rstart, rcount, rres, rstage : a range request and its resolution     *)
(*   chapters : the chapter files (with their content) as rglob yields     *)
(*              them, for the commands that merge                          *)
(*   blocks   : the merged files of the blocks directory                   *)
(*   tlast    : what the last command did                                  *)
(*   tphase   : no command yet, one command, chapters edited after it, a   *)
(*              second command                                             *)
(***************************************************************************)
VARIABLES raw, cleaned, again, cstage, text, seg, sstage,
          source, books, archive, context, pc, queue, last, placed,
          listing, rstart, rcount, rres, rstage,
          chapters, blocks, tlast, tphase

cleanVars == <<raw, cleaned, again, cstage>>

splitVars == <<text, seg, sstage>>

fsVars == <<source, books, archive, context>>

initVars == <<fsVars, pc, queue, last, placed>>

rangeVars == <<listing, rstart, rcount, rres, rstage>>

taskVars == <<chapters, blocks, tlast, tphase>>

vars == <<cleanVars, splitVars, initVars, rangeVars, taskVars>>

NoTask ==
  [cmd |-> "none", result |-> "none", why |-> "", start |-> 0, end |-> 0, count |-> 0,
   merged |-> <<>>, files |-> <<>>, proc |-> "none"]

TaskIdle == chapters = <<>> /\ blocks = {} /\ tlast = NoTask /\ tphase = "idle"

CleanIdle == raw = <<>> /\ cleaned = <<>> /\ again = <<>> /\ cstage = "idle"

NoSeg == [used |-> 0, parts |-> <<>>]

SplitIdle == text = <<>> /\ seg = NoSeg /\ sstage = "idle"

\* The stems of the *.txt names a manuscript may have: two that differ by a
\* space against an underscore, and one that looks like a chapter file.
Stems == { <<"a", SP, "b">>, <<"a", US, "b">>, <<DI, "1", DASH, "a">> }

NoFile == [size |-> -1, content |-> <<>>]

NoStep == [op |-> "none", file |-> <<>>, used |-> 0, written |-> <<>>]

InitIdle ==
  /\ source = [n \in Stems |-> NoFile]
  /\ books = {}
  /\ archive = [n \in Stems |-> NoFile]
  /\ context = FALSE
  /\ pc = "idle"
  /\ queue = {}
  /\ last = NoStep
  /\ placed = 0

NoRange == [files |-> <<>>, start |-> 0, end |-> 0]

RangeIdle == listing = <<>> /\ rstart = 0 /\ rcount = 0 /\ rres = NoRange /\ rstage = "idle"


\* The longest text given to clean_content.
MaxLen == 4

CleanAlphabet == {"a", LF, CR, ZW, "F", "D", "M", "X"}

(***************************************************************************)
(* The chapter range resolver (_get_chapter_files).                        *)
(***************************************************************************)

\* Op applied to the value of v (v is evaluated once).
With(v, Op(_)) == CHOOSE r \in {Op(x) : x \in {v}} : TRUE

\* all_chapters.sort(key=extract_num): list.sort is stable, so a file's
\* place is the number of files with a smaller key, or with the same key and
\* an earlier place, plus one.
SortByNum(files) ==
  LET n == Len(files)
      Placed(place) == [p \in 1..n |-> files[CHOOSE i \in 1..n : place[i] = p]]
      Ranked(key) ==
        With([i \in 1..n |->
                1 + Cardinality({j \in 1..n :
                                   key[j] < key[i] \/ (key[j] = key[i] /\ j < i)})],
             Placed)
  IN  With([i \in 1..n |-> extract_num(files[i].name)], Ranked)

\* for f in rglob("*.txt"): if re.match(r"第\d+-", f.name), then the sort
all_chapters(files) == With(SelectSeq(files, LAMBDA f : MatchSplitName(f.name)), SortByNum)

\* extract_num(f) >= start_chapter as a bug would have it: the start chapter
\* itself is left out.
AfterStart(num, start_chapter) == num > start_chapter

\* extract_num(f) >= start_chapter
FromStart(num, start_chapter) == num >= start_chapter

RECURSIVE TakeFiles(_, _, _)
\* for f in potential_files: stop once len(target_files) >= count
TakeFiles(potential_files, count, target_files) ==
  IF potential_files = <<>> \/ Len(target_files) >= count THEN target_files
  ELSE TakeFiles(Tail(potential_files), count, Append(target_files, Head(potential_files)))

\* NovelRefiner._get_chapter_files: (target_files, start_chapter, end_chapter_num)
get_chapter_files(files, start_chapter, count) ==
  LET potential_files ==
        SelectSeq(all_chapters(files), LAMBDA f : FromStart(extract_num(f.name), start_chapter))
      target_files == TakeFiles(potential_files, count, <<>>)
  IN  [files |-> target_files,
       start |-> start_chapter,
       end   |-> IF target_files = <<>> THEN start_chapter
                 ELSE extract_num(target_files[Len(target_files)].name)]

\* The highest chapter number of the generated listings.
MaxChapter == 3

\* The most files in a generated listing.
MaxFiles == 3

\* The largest count asked for over the generated listings.
MaxCount == 2

ChapterFile(dir, n) == [dir |-> dir, name |-> filename(n, <<"t">>)]

\* Chapter files of two books, and a text file that is no chapter file.
ListedFiles ==
  {ChapterFile(d, n) : d \in {"A", "B"}, n \in 1..MaxChapter}
    \cup {[dir |-> "A", name |-> <<"n", TXT>>]}

Listings ==
  {l \in SeqUpTo(ListedFiles, MaxFiles) : \A i, j \in 1..Len(l) : i # j => l[i] # l[j]}

\* Chapter files numbered 1 to 120 in one book, listed in a scrambled order.
Example120 == [i \in 1..120 |-> ChapterFile("A", ((i * 7) % 120) + 1)]

InitRange ==
  /\ listing \in Listings \cup {Example120}
  /\ rstart \in 1..(MaxChapter + 1) \cup {10}
  /\ rcount \in 0..MaxCount \cup {5}
  /\ rres = NoRange
  /\ rstage = "input"
  /\ CleanIdle
  /\ SplitIdle
  /\ InitIdle
  /\ TaskIdle

\* target_files, start_num, end_num = self._get_chapter_files(start_chapter, count)
Resolve ==
  /\ rstage = "input"
  /\ rres' = get_chapter_files(listing, rstart, rcount)
  /\ rstage' = "done"
  /\ UNCHANGED <<listing, rstart, rcount, cleanVars, splitVars, initVars, taskVars>>

NextRange == Resolve

SpecRange == InitRange /\ [][NextRange]_vars

(***************************************************************************)
(* scan, plan, refine and refine-exec: the merged blocks.                  *)
(***************************************************************************)

\* f"合并_第{start_chapter}-{end_chapter}章.txt"
merged_filename(start_chapter, end_chapter) ==
  <<"merged", US, DI>> \o ToDigits(start_chapter) \o <<DASH>> \o ToDigits(end_chapter)
    \o <<ZHANG, TXT>>

\* f.stem
Stem(name) == IF name # <<>> /\ name[Len(name)] = TXT THEN SubSeq(name, 1, Len(name) - 1) ELSE name

\* f"{'='*60}\n【{f.stem}】\n{'='*60}\n{content}\n"
Rendered(f) ==
  <<"=60", LF, "[[">> \o Stem(f.name) \o <<"]]", LF, "=60", LF>> \o f.body \o <<LF>>

\* start_chapter <= extract_num(f) <= end_chapter
InRange(num, start_chapter, end_chapter) == start_chapter <= num /\ num <= end_chapter

\* NovelRefiner.merge_chapters: whether any chapter file is in the range, and
\* the merged file it writes then.
merge_chapters(files, start_chapter, end_chapter) ==
  LET selected == SelectSeq(all_chapters(files),
                            LAMBDA f : InRange(extract_num(f.name), start_chapter, end_chapter))
  IN  [ok   |-> selected # <<>>,
       file |-> [name    |-> merged_filename(start_chapter, end_chapter),
                 content |-> Join([i \in 1..Len(selected) |-> Rendered(selected[i])], LF)]]

\* output_path.write_text(...): the file is made, or its content replaced.
write_text(dir, file) == {b \in dir : b.name # file.name} \cup {file}

\* merged_file.exists()
exists(dir, name) == \E b \in dir : b.name = name

\* 第(\d+)-(\d+)章 matches at position i of s
RangeAt(s, i) ==
  /\ i <= Len(s)
  /\ s[i] = DI
  /\ LET r == RunEnd(s, i + 1, Digits)
     IN  /\ r > i + 1 /\ r <= Len(s) /\ s[r] = DASH
         /\ LET q == RunEnd(s, r + 1, Digits)
            IN  q > r + 1 /\ q <= Len(s) /\ s[q] = ZHANG

\* re.search(r"第(\d+)-(\d+)章", s): whether it matches, and the two numbers
\* int(match.group(1)), int(match.group(2)) of the leftmost match.
SearchRange(s) ==
  IF \E i \in 1..Len(s) : RangeAt(s, i)
  THEN LET i == CHOOSE j \in 1..Len(s) :
                  RangeAt(s, j) /\ \A k \in 1..(j - 1) : ~RangeAt(s, k)
           r == RunEnd(s, i + 1, Digits)
           q == RunEnd(s, r + 1, Digits)
       IN  [match |-> TRUE,
            start |-> ToInt(SubSeq(s, i + 1, r - 1)),
            end   |-> ToInt(SubSeq(s, r + 1, q - 1))]
  ELSE [match |-> FALSE, start |-> 0, end |-> 0]

\* A chapter file with its content.
TaskFile(dir, n, title) == [dir |-> dir, name |-> filename(n, title), body |-> <<"v0">>]

Reverse(s) == [i \in 1..Len(s) |-> s[Len(s) - i + 1]]

\* Book A with chapters 1..n and, if second, a book B with a chapter 1 of
\* its own, as rglob may yield them: A before B in ascending order, or B
\* before A in descending order.
Shelf(n, second, forward) ==
  LET l == [i \in 1..n |-> TaskFile("A", i, <<"t">>)]
             \o (IF second THEN <<TaskFile("B", 1, <<"u">>)>> ELSE <<>>)
  IN  IF forward THEN l ELSE Reverse(l)

Shelves ==
  {Shelf(n, FALSE, TRUE) : n \in 0..MaxChapter}
    \cup {Shelf(n, TRUE, o) : n \in 1..MaxChapter, o \in BOOLEAN}

RangeText(s, e) == <<DI>> \o ToDigits(s) \o <<DASH>> \o ToDigits(e) \o <<ZHANG>>

\* The records of a block plan: with or without "block_id" and "range".
Block(id, range) == [has_id |-> TRUE, block_id |-> id, has_range |-> TRUE, range |-> range]

BlockNoId == [has_id |-> FALSE, block_id |-> "", has_range |-> TRUE, range |-> RangeText(1, 2)]

BlockNoRange == [has_id |-> TRUE, block_id |-> "B1", has_range |-> FALSE, range |-> <<>>]

\* What the block file holds: text that is no JSON, a JSON object, or a JSON
\* list of block records.
PlanList(items) == [kind |-> "list", items |-> items]

PlanInvalid == [kind |-> "invalid", items |-> <<>>]

PlanObject == [kind |-> "object", items |-> <<>>]

BlockPlans ==
  {PlanInvalid, PlanObject, PlanList(<<>>),
   PlanList(<<Block("B1", RangeText(1, 2))>>),
   PlanList(<<Block("B1", RangeText(1, 2)), Block("B2", RangeText(2, 2))>>),
   PlanList(<<Block("B1", RangeText(MaxChapter + 1, MaxChapter + 1))>>),
   PlanList(<<Block("B1", <<"x">>)>>),
   PlanList(<<BlockNoId>>),
   PlanList(<<BlockNoRange>>)}

PlanName(range) == <<"plan", US>> \o range \o <<".json">>

\* The block files given to refine and refine-exec: a path with no file, and
\* files whose names carry a range or none.
BlockFiles ==
  {[exists |-> FALSE, name |-> PlanName(RangeText(1, 2)), plan |-> PlanInvalid]}
    \cup {[exists |-> TRUE, name |-> PlanName(<<>>), plan |-> p] : p \in BlockPlans}
    \cup {[exists |-> TRUE, name |-> PlanName(r), plan |-> PlanList(<<Block("B1", r)>>)] :
            r \in {RangeText(1, 2), RangeText(2, 2), RangeText(MaxChapter + 1, MaxChapter + 1)}}

\* --block: absent, or a block id
BlockIds == {"", "B1", "B2", "B9"}

\* How subprocess.run("gemini --yolo", ...) ends.
Processes == {"exit0", "exit1", "timeout", "notfound", "oserror"}

\* What refine-exec finds once the merged file is there: the template
\* (小说精炼提示词.txt) missing, story_context.txt missing, or both there and
\* the process ending in some way.
Environments ==
  {[template |-> FALSE, story_context |-> TRUE, proc |-> "exit0"],
   [template |-> TRUE, story_context |-> FALSE, proc |-> "exit0"]}
    \cup {[template |-> TRUE, story_context |-> TRUE, proc |-> p] : p \in Processes}

InitTask ==
  /\ chapters \in Shelves
  /\ blocks = {}
  /\ tlast = NoTask
  /\ tphase = "fresh"
  /\ CleanIdle
  /\ SplitIdle
  /\ InitIdle
  /\ RangeIdle

\* A command runs first, or second after the first and a possible edit.
CanRun == tphase \in {"fresh", "ran", "edited"}

Ran(cmd, result, why, start, end, count, merged, files, proc) ==
  /\ tphase' = IF tphase = "fresh" THEN "ran" ELSE "reran"
  /\ tlast' = [cmd |-> cmd, result |-> result, why |-> why, start |-> start, end |-> end,
               count |-> count, merged |-> merged, files |-> files, proc |-> proc]
  /\ UNCHANGED <<chapters, cleanVars, splitVars, initVars, rangeVars>>

\* NovelRefiner.get_scan_task; template: 高光点扫描提示词.txt exists
get_scan_task(start_chapter, count, template) ==
  \E r \in {get_chapter_files(chapters, start_chapter, count)} :
    \E m \in {merge_chapters(chapters, r.start, r.end)} :
      IF r.files = <<>>
      THEN /\ Ran("scan", "error", "no chapters", r.start, r.end, 0, <<>>, <<>>, "none")
           /\ blocks' = blocks
      ELSE IF ~template
      THEN /\ Ran("scan", "error", "no template", r.start, r.end, 0, <<>>, <<>>, "none")
           /\ blocks' = blocks
      ELSE IF ~m.ok
      THEN /\ Ran("scan", "error", "no merge", r.start, r.end, 0, <<>>, <<>>, "none")
           /\ blocks' = blocks
      ELSE /\ Ran("scan", "descriptor", "", r.start, r.end, Len(r.files), m.file.name,
                   r.files, "none")
           /\ blocks' = write_text(blocks, m.file)

Scan ==
  /\ CanRun
  /\ \E start_chapter \in 1..(MaxChapter + 1), count \in 0..MaxCount, template \in BOOLEAN :
       get_scan_task(start_chapter, count, template)

\* NovelRefiner.get_plan_task; template: 剧情块提示词.txt exists. The search
\* for a highlights file reads the blocks directory and changes nothing.
get_plan_task(start_chapter, count, template) ==
  \E r \in {get_chapter_files(chapters, start_chapter, count)} :
    \E m \in {merge_chapters(chapters, r.start, r.end)} :
      IF r.files = <<>>
      THEN /\ Ran("plan", "error", "no chapters", r.start, r.end, 0, <<>>, <<>>, "none")
           /\ blocks' = blocks
      ELSE IF ~template
      THEN /\ Ran("plan", "error", "no template", r.start, r.end, 0, <<>>, <<>>, "none")
           /\ blocks' = blocks
      ELSE IF exists(blocks, m.file.name)
      THEN /\ Ran("plan", "descriptor", "", r.start, r.end, Len(r.files), m.file.name,
                   r.files, "none")
           /\ blocks' = blocks
      ELSE IF ~m.ok
      THEN /\ Ran("plan", "error", "no merge", r.start, r.end, 0, <<>>, <<>>, "none")
           /\ blocks' = blocks
      ELSE /\ Ran("plan", "descriptor", "", r.start, r.end, Len(r.files), m.file.name,
                   r.files, "none")
           /\ blocks' = write_text(blocks, m.file)

Plan ==
  /\ CanRun
  /\ \E start_chapter \in 1..(MaxChapter + 1), count \in 0..MaxCount, template \in BOOLEAN :
       get_plan_task(start_chapter, count, template)

\* chapter_count = len([f for f in all_chapters if start_chap <= extract_num(f) <= end_chap])
chapter_count(files, start_chap, end_chap) ==
  Len(SelectSeq(files, LAMBDA f : /\ MatchSplitName(f.name)
                                  /\ InRange(extract_num(f.name), start_chap, end_chap)))

\* NovelRefiner.get_refine_task; story_context: story_context.txt exists;
\* template: 小说精炼提示词.txt exists
get_refine_task(block_file, story_context, template) ==
  \E match \in {SearchRange(block_file.name)} :
    \E m \in {merge_chapters(chapters, match.start, match.end)} :
      IF ~block_file.exists
      THEN /\ Ran("refine", "error", "no block file", 0, 0, 0, <<>>, <<>>, "none")
           /\ blocks' = blocks
      ELSE IF ~match.match
      THEN /\ Ran("refine", "error", "no range", 0, 0, 0, <<>>, <<>>, "none")
           /\ blocks' = blocks
      ELSE IF ~story_context
      THEN /\ Ran("refine", "error", "no context", match.start, match.end, 0, <<>>, <<>>, "none")
           /\ blocks' = blocks
      ELSE IF ~template
      THEN /\ Ran("refine", "error", "no template", match.start, match.end, 0, <<>>, <<>>, "none")
           /\ blocks' = blocks
      ELSE IF exists(blocks, m.file.name)
      THEN /\ Ran("refine", "descriptor", "", match.start, match.end,
                   chapter_count(chapters, match.start, match.end), m.file.name, <<>>, "none")
           /\ blocks' = blocks
      ELSE IF ~m.ok
      THEN /\ Ran("refine", "error", "no merge", match.start, match.end, 0, <<>>, <<>>, "none")
           /\ blocks' = blocks
      ELSE /\ Ran("refine", "descriptor", "", match.start, match.end,
                   chapter_count(chapters, match.start, match.end), m.file.name, <<>>, "none")
           /\ blocks' = write_text(blocks, m.file)

Refine ==
  /\ CanRun
  /\ \E block_file \in BlockFiles, story_context \in BOOLEAN, template \in BOOLEAN :
       get_refine_task(block_file, story_context, template)

\* for b in blocks: if b.get("block_id") == block_id: the place of the
\* first such record, 0 if there is none
FindBlock(items, block_id) ==
  IF \E i \in 1..Len(items) : items[i].has_id /\ items[i].block_id = block_id
  THEN CHOOSE i \in 1..Len(items) :
         /\ items[i].has_id /\ items[i].block_id = block_id
         /\ \A j \in 1..(i - 1) : ~(items[j].has_id /\ items[j].block_id = block_id)
  ELSE 0

\* The steps of execute_refine_with_gemini from the chosen record on.
RefineBlock(target_block) ==
  \E range_match \in {SearchRange(target_block.range)} :
    \E m \in {merge_chapters(chapters, range_match.start, range_match.end)} :
      IF ~target_block.has_range \/ ~range_match.match
      THEN /\ Ran("refine-exec", "failure", "no range", 0, 0, 0, <<>>, <<>>, "none")
           /\ blocks' = blocks
      ELSE IF ~target_block.has_id
      \* target_block['block_id'] raises KeyError
      THEN /\ Ran("refine-exec", "fault", "KeyError", range_match.start, range_match.end,
                   0, <<>>, <<>>, "none")
           /\ blocks' = blocks
      ELSE IF ~exists(blocks, m.file.name) /\ ~m.ok
      THEN /\ Ran("refine-exec", "failure", "no merge", range_match.start, range_match.end,
                   0, <<>>, <<>>, "none")
           /\ blocks' = blocks
      ELSE /\ blocks' = IF exists(blocks, m.file.name) THEN blocks ELSE write_text(blocks, m.file)
           /\ \E env \in Environments :
                IF ~env.template
                THEN Ran("refine-exec", "failure", "no template", range_match.start,
                         range_match.end, 0, m.file.name, <<>>, "none")
                ELSE IF ~env.story_context
                THEN Ran("refine-exec", "failure", "no context", range_match.start,
                         range_match.end, 0, m.file.name, <<>>, "none")
                ELSE Ran("refine-exec", IF env.proc = "exit0" THEN "success" ELSE "failure",
                         "", range_match.start, range_match.end, 0, m.file.name, <<>>,
                         env.proc)

\* NovelRefiner.execute_refine_with_gemini and main's exit status
execute_refine_with_gemini(block_file, block_id) ==
  IF ~block_file.exists
  THEN /\ Ran("refine-exec", "failure", "no block file", 0, 0, 0, <<>>, <<>>, "none")
       /\ blocks' = blocks
  ELSE IF block_file.plan.kind = "invalid"
  THEN /\ Ran("refine-exec", "failure", "no json", 0, 0, 0, <<>>, <<>>, "none")
       /\ blocks' = blocks
  ELSE IF block_file.plan.kind = "object"
  \* b.get on a key of the object raises AttributeError, blocks[0] KeyError
  THEN /\ Ran("refine-exec", "fault", IF block_id # "" THEN "AttributeError" ELSE "KeyError",
               0, 0, 0, <<>>, <<>>, "none")
       /\ blocks' = blocks
  ELSE IF block_id # ""
  THEN IF FindBlock(block_file.plan.items, block_id) = 0
       THEN /\ Ran("refine-exec", "failure", "no block", 0, 0, 0, <<>>, <<>>, "none")
            /\ blocks' = blocks
       ELSE RefineBlock(block_file.plan.items[FindBlock(block_file.plan.items, block_id)])
  ELSE IF block_file.plan.items = <<>>
  \* blocks[0] raises IndexError
  THEN /\ Ran("refine-exec", "fault", "IndexError", 0, 0, 0, <<>>, <<>>, "none")
       /\ blocks' = blocks
  ELSE RefineBlock(block_file.plan.items[1])

RefineExec ==
  /\ CanRun
  /\ \E block_file \in BlockFiles, block_id \in BlockIds :
       execute_refine_with_gemini(block_file, block_id)

\* Between two commands the content of a chapter file changes: one of the
\* range the first command was about.
EditChapter ==
  /\ tphase = "ran"
  /\ \E i \in 1..Len(chapters) :
       /\ InRange(extract_num(chapters[i].name), tlast.start, tlast.end)
       /\ chapters' = [chapters EXCEPT ![i].body = <<"v1">>]
  /\ tphase' = "edited"
  /\ UNCHANGED <<blocks, tlast, cleanVars, splitVars, initVars, rangeVars>>

NextTask == Scan \/ Plan \/ Refine \/ RefineExec \/ EditChapter

SpecTask == InitTask /\ [][NextTask]_vars

(***************************************************************************)
(* init: the source directory, the book directories and the archive.       *)
(***************************************************************************)

\* The manuscripts placed in the source directory over a run of the model.
MaxPlaced == 2

\* Six headings with classical numerals, each followed by a line of text.
MsClassic ==
  Join([i \in 1..12 |-> IF i % 2 = 1 THEN <<DI, NUM, ZHANG, "a">> ELSE <<"x">>], LF)

\* An advertisement line and a line of text ended by CR LF, then six headings
\* with Arabic numerals (a path-unsafe character in the title), each followed
\* by a line that holds a zero-width character.
MsArabic ==
  <<"F", "D", LF, "y", CR, LF>>
  \o Join([i \in 1..12 |-> IF i % 2 = 1 THEN <<DI, DIG, ZHANG, QM, "b">> ELSE <<"y", ZW>>], LF)

\* Five headings only: no strategy has more than 5 matches.
MsFive ==
  Join([i \in 1..10 |-> IF i % 2 = 1 THEN <<DI, NUM, ZHANG, "a">> ELSE <<"x">>], LF)

\* Six section headings: only the loose pattern matches them.
MsLoose ==
  Join([i \in 1..12 |-> IF i % 2 = 1 THEN <<DI, NUM, JIE, SP>> ELSE <<"z">>], LF)

Manuscripts == {MsClassic, MsArabic, MsFive, MsLoose}

Sizes == {Threshold - 1, Threshold, Threshold + 1}

\* A new manuscript is put in the source directory between two runs.
PlaceManuscript ==
  /\ pc = "idle"
  /\ placed < MaxPlaced
  /\ \E n \in Stems, c \in Manuscripts, z \in Sizes :
       source' = [source EXCEPT ![n] = [size |-> z, content |-> c]]
  /\ placed' = placed + 1
  /\ last' = NoStep
  /\ UNCHANGED <<books, archive, context, pc, queue, cleanVars, splitVars, rangeVars, taskVars>>

\* init_project up to source_files = list(glob("*.txt")): the directories
\* are made (they exist from then on) and the manuscripts listed.
InitStart ==
  /\ pc = "idle"
  /\ pc' = "init"
  /\ queue' = {n \in Stems : source[n] # NoFile}
  /\ last' = [NoStep EXCEPT !.op = "start"]
  /\ UNCHANGED <<fsVars, placed, cleanVars, splitVars, rangeVars, taskVars>>

\* re.search(r"第\d+-", file_path.name) and file_path.stat().st_size < 50 * 1024,
\* as a bug would have it: both must hold for the file to be skipped.
SkippedIfBoth(stem, size) == SearchSplitName(stem \o <<TXT>>) /\ size < Threshold

\* re.search(r"第\d+-", file_path.name) or file_path.stat().st_size < 50 * 1024
Skipped(stem, size) == SearchSplitName(stem \o <<TXT>>) \/ size < Threshold

RECURSIVE WriteParts(_, _, _, _)
\* for idx, (title, body) in enumerate(parts): the files written from part
\* idx on, in order (write_text replaces a file of the same name).
WriteParts(dir, parts, idx, files) ==
  IF idx >= Len(parts) THEN files
  ELSE LET f == [dir |-> dir,
                 name |-> filename(SeqNum(idx), parts[idx + 1].title),
                 body |-> parts[idx + 1].body]
       IN  WriteParts(dir, parts, idx + 1,
                      {g \in files : ~(g.dir = f.dir /\ g.name = f.name)} \cup {f})

\* The files one split writes, in the order of the loop.
Written(dir, parts) ==
  [i \in 1..Len(parts) |->
     [dir |-> dir, name |-> filename(SeqNum(i - 1), parts[i].title), body |-> parts[i].body]]

\* One turn of `for file_path in source_files`.
InitFile ==
  /\ pc = "init"
  /\ \E n \in queue :
       /\ queue' = queue \ {n}
       /\ IF Skipped(n, source[n].size)
          THEN /\ last' = [NoStep EXCEPT !.op = "skip", !.file = n]
               /\ UNCHANGED fsVars
          ELSE \E sg \in {Segment(clean_content(source[n].content))} :
                 IF sg.parts = <<>>
                 THEN /\ last' = [NoStep EXCEPT !.op = "nomatch", !.file = n]
                      /\ UNCHANGED fsVars
                 ELSE /\ archive' = [archive EXCEPT ![n] = source[n]]
                      /\ source' = [source EXCEPT ![n] = NoFile]
                      /\ books' = WriteParts(book_name(n), sg.parts, 0, books)
                      /\ last' = [op |-> "split", file |-> n, used |-> sg.used,
                                  written |-> Written(book_name(n), sg.parts)]
                      /\ UNCHANGED context
  /\ UNCHANGED <<pc, placed, cleanVars, splitVars, rangeVars, taskVars>>

\* init_project after the split: story_context.txt is copied from the
\* template when it is missing and the template exists.
InitEnd ==
  /\ pc = "init"
  /\ queue = {}
  /\ pc' = "idle"
  /\ \E template_exists \in BOOLEAN : context' = (context \/ template_exists)
  /\ last' = [NoStep EXCEPT !.op = "end"]
  /\ UNCHANGED <<source, books, archive, queue, placed, cleanVars, splitVars, rangeVars, taskVars>>

Init ==
  /\ InitIdle
  /\ CleanIdle
  /\ SplitIdle
  /\ RangeIdle
  /\ TaskIdle

Next == PlaceManuscript \/ InitStart \/ InitFile \/ InitEnd

Spec == Init /\ [][Next]_vars

InitClean ==
  /\ raw \in SeqUpTo(CleanAlphabet, MaxLen)
  /\ cleaned = <<>>
  /\ again = <<>>
  /\ cstage = "input"
  /\ SplitIdle
  /\ InitIdle
  /\ RangeIdle
  /\ TaskIdle

\* content = self.clean_content(raw_content)
CleanOnce ==
  /\ cstage = "input"
  /\ cleaned' = clean_content(raw)
  /\ cstage' = "cleaned"
  /\ UNCHANGED <<raw, again, splitVars, initVars, rangeVars, taskVars>>

\* clean_content applied to its own output
CleanAgain ==
  /\ cstage = "cleaned"
  /\ again' = clean_content(cleaned)
  /\ cstage' = "again"
  /\ UNCHANGED <<raw, cleaned, splitVars, initVars, rangeVars, taskVars>>

NextClean == CleanOnce \/ CleanAgain

SpecClean == InitClean /\ [][NextClean]_vars

(***************************************************************************)
(* Claims about clean_content.                                             *)
(***************************************************************************)

\* A line holds one of the advertisement substrings.
HasAd(line) == \E kw \in {ad_keywords[k] : k \in 1..Len(ad_keywords)} : Contains(line, kw)

HasControl(s) == \E i \in 1..Len(s) : s[i] \in control_chars

\* The lines of a text that hold no advertisement substring, in order.
KeptLines(s) == SelectSeq(splitlines(s), LAMBDA l : ~HasAd(l))

\* The text has no advertisement substring and no stripped control character.
Plain(s) == ~HasControl(s) /\ \A i \in 1..Len(splitlines(s)) : ~HasAd(splitlines(s)[i])

\* C5: clean_content is idempotent: applied to its own output it changes
\* nothing, for every input text.
C5_Idempotent == cstage = "again" => again = cleaned

\* C6 (as claimed): every line holding an advertisement substring is removed
\* and every other line kept in order, and a text with no advertisement
\* substring and no control character comes back unchanged, character for
\* character.
C6_NoOpOnPlain ==
  cstage = "cleaned" =>
    /\ cleaned = Join([i \in 1..Len(KeptLines(raw)) |-> StripControl(KeptLines(raw)[i])], LF)
    /\ Plain(raw) => cleaned = raw

\* C6 (amended): the result is the lines of the input that hold no
\* advertisement substring, in order, each without its control characters,
\* joined by "\n" with no terminator after the last; so a text with no
\* advertisement substring and no control character comes back unchanged
\* exactly when it is its own lines joined by "\n": in particular when "\n"
\* is its only line terminator and it does not end with one.
C6_KeptLinesJoined ==
  cstage = "cleaned" =>
    /\ cleaned = Join([i \in 1..Len(KeptLines(raw)) |-> StripControl(KeptLines(raw)[i])], LF)
    /\ Plain(raw) => (cleaned = raw <=> raw = Join(splitlines(raw), LF))
    /\ (Plain(raw) /\ (\A i \in 1..Len(raw) : raw[i] # CR)
          /\ (raw = <<>> \/ raw[Len(raw)] # LF)) => cleaned = raw

\* An advertisement line was removed and another line kept.
C6_Witness ==
  /\ cstage = "cleaned"
  /\ \E i \in 1..Len(splitlines(raw)) : HasAd(splitlines(raw)[i])
  /\ cleaned # <<>>
  /\ Len(cleaned) < Len(raw)

(***************************************************************************)
(* The segmenter on generated texts: a text is up to three runs of equal   *)
(* lines, joined by "\n".                                                  *)
(***************************************************************************)

\* The most repetitions of a line in one run.
MaxReps == 6

LineKinds ==
  { <<DI, NUM, ZHANG>>,            \* a heading with a classical numeral
    <<DI, DIG, ZHANG, "a">>,       \* a heading with an Arabic numeral
    <<DI, NUM, JIE>>,              \* a section heading (loose pattern only)
    <<"x">>,                       \* body text
    <<"x", SP, DI, NUM, ZHANG>>,   \* a heading after a blank inside a line
    <<"x", DI, DIG, ZHANG>>,       \* no separator before 第: not a heading
    <<>> }                         \* an empty line

Runs == {Repeat(l, n) : l \in LineKinds, n \in 0..MaxReps}

GeneratedTexts == {Join(r1 \o r2 \o r3, LF) : r1 \in Runs, r2 \in Runs, r3 \in Runs}

\* "第一章 标题" through "第十章 标题": ten headings with classical numerals.
TenClassical == Join(Repeat(<<DI, NUM, ZHANG, SP, "a">>, 10), LF)

InitSplit ==
  /\ text \in GeneratedTexts \cup {TenClassical}
  /\ seg = NoSeg
  /\ sstage = "input"
  /\ CleanIdle
  /\ InitIdle
  /\ RangeIdle
  /\ TaskIdle

\* the strategy loop of _split_source_files on one content
SegmentText ==
  /\ sstage = "input"
  /\ seg' = Segment(text)
  /\ sstage' = "done"
  /\ UNCHANGED <<text, cleanVars, initVars, rangeVars, taskVars>>

NextSplit == SegmentText

SpecSplit == InitSplit /\ [][NextSplit]_vars

\* The number of matches of the k-th strategy in the text.
Count(s, k) == Len(finditer(s, strategies[k]))

\* The first strategy, in the fixed order, with 6 or more matches; 0 if none.
FirstAccepted(s) ==
  LET c1 == Count(s, 1)
      c2 == Count(s, 2)
      c3 == Count(s, 3)
  IN  IF c1 >= 6 THEN 1 ELSE IF c2 >= 6 THEN 2 ELSE IF c3 >= 6 THEN 3 ELSE 0

\* C10: the strategies are tried in the order classical, Arabic, loose; the
\* parts come from exactly one, the first with 6 or more matches (5 are not
\* enough), one chapter per match of it and none from a later strategy; ten
\* classical headings give 10 files by the first strategy.
C10_FirstStrategyOnly ==
  sstage = "done" =>
    /\ seg.used = FirstAccepted(text)
    /\ seg.used = 0 => seg.parts = <<>>
    /\ seg.used # 0 =>
         LET ms == finditer(text, strategies[seg.used])
             chs == IF ms[1].start > 1 THEN Tail(seg.parts) ELSE seg.parts
         IN  /\ Len(chs) = Len(ms)
             /\ \A i \in 1..Len(ms) :
                  /\ chs[i].body # <<>>
                  /\ SubSeq(text, ms[i].start, ms[i].start + Len(chs[i].body) - 1)
                       = chs[i].body
    /\ seg.used = 1 => Count(text, 1) # 5
    /\ text = TenClassical => seg.used = 1 /\ Len(seg.parts) = 10

\* A later strategy has enough matches too, and the first was taken.
C10_Witness ==
  /\ sstage = "done"
  /\ Count(text, 1) >= 6
  /\ Count(text, 2) >= 6
  /\ seg.used = 1
  /\ Len(seg.parts) = Count(text, 1)

(***************************************************************************)
(* Claims about init.                                                      *)
(***************************************************************************)

\* The number of matches of the k-th strategy in the sanitized content.
CleanCount(c, k) == Len(finditer(clean_content(c), strategies[k]))

\* C1: a split whose accepted strategy finds N > 5 matches writes exactly N
\* chapter files, or N + 1 when text precedes the first match (the preface,
\* numbered 1); every file is non-empty and the numbers in the file names are
\* 1, 2, ... with no gap and no repeat, in the order of the parts in the text.
C1_SplitWritesEveryPart ==
  last.op = "split" =>
    \A content \in {clean_content(archive[last.file].content)} :
      \A ms \in {finditer(content, strategies[last.used])} :
        LET pre == IF ms[1].start > 1 THEN 1 ELSE 0
            W == last.written
        IN  /\ Len(ms) > 5
            /\ Len(W) = Len(ms) + pre
            /\ Cardinality({W[i].name : i \in 1..Len(W)}) = Len(W)
            /\ \A i \in 1..Len(W) :
                 /\ W[i].body # <<>>
                 /\ extract_num(W[i].name) = i
                 /\ W[i] \in books
            /\ \A i \in 1..Len(ms) :
                 SubSeq(content, ms[i].start, ms[i].start + Len(W[i + pre].body) - 1)
                   = W[i + pre].body
            /\ pre = 1 => W[1].body = SubSeq(content, 1, ms[1].start - 1)

\* A split with a preface: six matches, seven files.
C1_Witness ==
  /\ last.op = "split"
  /\ Len(last.written) = 7
  /\ CleanCount(archive[last.file].content, last.used) = 6

\* A step of init (not the placing of a manuscript) leaves alone every file
\* that satisfies small.
NeverSplit(small(_, _)) ==
  \A n \in Stems :
    (source[n] # NoFile /\ placed' = placed /\ small(n, source[n].size)) =>
      /\ source'[n] = source[n]
      /\ archive'[n] = archive[n]
      /\ ~(last'.op = "split" /\ last'.file = n)

AtOrBelow(n, size) == size <= Threshold \/ MatchSplitName(n \o <<TXT>>)

Below(n, size) == size < Threshold \/ MatchSplitName(n \o <<TXT>>)

\* C2 (as claimed): a file whose size is at or below 50 KiB (exactly 50 KiB
\* included), or whose name matches the split-chapter pattern, is never
\* split: it stays, it is not archived, no chapter files are derived from it.
C2_AtOrBelowNeverSplit == [][NeverSplit(AtOrBelow)]_vars

\* C2 (amended): a file whose size is below 50 KiB (51200 bytes), or whose
\* name matches the split-chapter pattern, is never split: it stays, it is not
\* archived, no chapter files are derived from it. A file of exactly 50 KiB is
\* processed like a larger one.
C2_BelowNeverSplit == [][NeverSplit(Below)]_vars

\* A manuscript that would split was skipped for its size.
C2_Witness ==
  /\ last.op = "skip"
  /\ source[last.file].size < Threshold
  /\ ~SearchSplitName(last.file \o <<TXT>>)
  /\ CleanCount(source[last.file].content, 1) > 5

\* C7: a manuscript above the size threshold for which no strategy has more
\* than 5 matches is left untouched by the turn of the loop that handles it:
\* it stays with its content, nothing is archived, no book directory or
\* chapter file is made, and init goes on to the remaining manuscripts.
C7_NoMatchLeavesUntouched ==
  [][\A n \in Stems :
       (/\ pc = "init"
        /\ n \in queue
        /\ n \notin queue'
        /\ source[n].size > Threshold
        /\ \A k \in 1..3 : CleanCount(source[n].content, k) <= 5)
       => /\ source' = source
          /\ archive' = archive
          /\ books' = books
          /\ pc' = "init"
          /\ queue' = queue \ {n}]_vars

\* A large manuscript with five headings was passed over and others remain.
C7_Witness ==
  /\ last.op = "nomatch"
  /\ source[last.file].size > Threshold
  /\ source[last.file].content = MsFive
  /\ queue # {}
  /\ pc = "init"

\* C8: after any sequence of init runs every book subdirectory holds at most
\* one chapter file per sequence number, and a chapter file once written
\* keeps its sequence number, name and content.
C8_UniqueAndImmutable ==
  /\ [](\A f, g \in books :
          (f.dir = g.dir /\ extract_num(f.name) = extract_num(g.name)) => f = g)
  /\ [][\A f \in books : f \in books']_vars

RECURSIVE BodiesUpTo(_, _)
\* The bodies of the first n of the files W, one after the other.
BodiesUpTo(W, n) == IF n = 0 THEN <<>> ELSE BodiesUpTo(W, n - 1) \o W[n].body

\* C12: a split loses and duplicates no text: the bodies of the parts, the
\* preface if any and then the chapters in sequence order, are slices of the
\* sanitized content, each beginning where the one before ended, and one
\* after the other they are the sanitized content exactly.
C12_PartsCoverContent ==
  last.op = "split" =>
    \A content \in {clean_content(archive[last.file].content)}, W \in {last.written} :
      /\ BodiesUpTo(W, Len(W)) = content
      /\ \A i \in 1..Len(W) :
           \A from \in {Len(BodiesUpTo(W, i - 1))} :
             /\ W[i].body = SubSeq(content, from + 1, from + Len(W[i].body))
             /\ extract_num(W[i].name) = i
             /\ W[i] \in books

\* A split with a preface of a manuscript that the sanitizer changed.
C12_Witness ==
  /\ last.op = "split"
  /\ last.written[1].name = filename(1, PrefaceTitle)
  /\ clean_content(archive[last.file].content) # archive[last.file].content
  /\ Len(last.written) > 6

(***************************************************************************)
(* Claims about the range resolver.                                        *)
(***************************************************************************)

NumOf(f) == extract_num(f.name)

\* The place of a file in the listing.
PlaceOf(f) == CHOOSE i \in 1..Len(listing) : listing[i] = f

\* The chapter files of the listing whose number is at least S.
AtLeast(S) ==
  {listing[i] : i \in {j \in 1..Len(listing) :
                         MatchSplitName(listing[j].name) /\ NumOf(listing[j]) >= S}}

\* C3: range resolution with start S and count C returns exactly the first
\* min(C, k) of the k chapter files numbered >= S, in ascending order (at
\* most C files, all numbered >= S), nothing when k = 0; with chapters 1..120,
\* start 10 and count 5 select chapters 10..14 and end = 14.
C3_FirstOfRange ==
  rstage = "done" =>
    \A T \in {rres.files}, cand \in {AtLeast(rstart)} :
      \A chosen \in {{T[i] : i \in 1..Len(T)}} :
        /\ Len(T) = Min(rcount, Cardinality(cand))
        /\ Len(T) <= rcount
        /\ Cardinality(chosen) = Len(T)
        /\ chosen \subseteq cand
        /\ \A i, j \in 1..Len(T) : i < j => NumOf(T[i]) <= NumOf(T[j])
        /\ \A f \in cand \ chosen : \A t \in chosen :
             \/ NumOf(t) < NumOf(f)
             \/ NumOf(t) = NumOf(f) /\ PlaceOf(t) < PlaceOf(f)
        /\ cand = {} => T = <<>>
        /\ rres.start = rstart
        /\ T # <<>> => rres.end = NumOf(T[Len(T)])
        /\ (listing = Example120 /\ rstart = 10 /\ rcount = 5) =>
             /\ [i \in 1..Len(T) |-> NumOf(T[i])] = <<10, 11, 12, 13, 14>>
             /\ rres.end = 14

\* Chapters 1..120, start 10, count 5: five files, the last numbered 14.
C3_Witness ==
  /\ rstage = "done"
  /\ listing = Example120
  /\ rstart = 10
  /\ rcount = 5
  /\ Len(rres.files) = 5
  /\ rres.end = 14

(***************************************************************************)
(* Claims about the commands that need a merged block.                     *)
(***************************************************************************)

\* C4: when scan, plan, refine or refine-exec needs the merged file of a
\* range and a file of that name is already in the blocks directory, the
\* command leaves it as it is: after the command the file is there with the
\* content it had, also when chapter files changed since it was written.
C4_ExistingMergedReused ==
  [][\A b \in blocks :
       (CanRun /\ tphase' # tphase /\ tlast'.merged = b.name) => b \in blocks']_vars

\* C9: a refine-exec invocation ends with success or with failure, never with
\* an uncaught fault, and with success exactly when the process was run and
\* exited with status 0.
C9_SuccessOrFailure ==
  tlast.cmd = "refine-exec" =>
    /\ tlast.result \in {"success", "failure"}
    /\ tlast.result = "success" <=> tlast.proc = "exit0"

\* The file stems named by the banners of a merged text, in order: what
\* stands between each opening and closing bracket of a banner.
MergedStems(content) ==
  LET opens == SelectSeq([i \in 1..Len(content) |-> i], LAMBDA i : content[i] = "[[")
      Close(i) == CHOOSE j \in (i + 1)..Len(content) :
                    content[j] = "]]" /\ \A k \in (i + 1)..(j - 1) : content[k] # "]]"
  IN  [n \in 1..Len(opens) |-> SubSeq(content, opens[n] + 1, Close(opens[n]) - 1)]

\* C11: the merged block a scan or plan descriptor references holds exactly
\* the chapter files the range resolver selected for (start, count): the same
\* files in the same order, as many as the descriptor's count; also with
\* equal sequence numbers in several books and with a merged file that was
\* already there.
C11_MergedIsSelection ==
  (tlast.cmd \in {"scan", "plan"} /\ tlast.result = "descriptor") =>
    \A b \in {c \in blocks : c.name = tlast.merged} :
      /\ MergedStems(b.content) = [i \in 1..Len(tlast.files) |-> Stem(tlast.files[i].name)]
      /\ Len(MergedStems(b.content)) = tlast.count

====
